---- MODULE Spec2Model ----
(***************************************************************************)
(* mdbg (Motor OS user-mode debugger), src/bin/mdbg/src/main.rs.           *)
(*                                                                         *)
(* Two state machines over one set of variables:                           *)
(*   SpecWalk : get_thread_trace, the remote frame-pointer walker, run on   *)
(*              a family of debuggee memories;                             *)
(*   Spec     : cmd_print_stacks, the attach / pause / snapshot / resume /  *)
(*              detach session, run against a concurrent debuggee.         *)
(***************************************************************************)
EXTENDS Integers, Sequences, FiniteSets, TLC

(***************************************************************************)
(* u64 values.  TLC integers are 32 bits wide, so a u64 is kept as four    *)
(* 16-bit limbs, least significant first; arithmetic is exact mod 2^64.    *)
(***************************************************************************)
LimbBase == 2^16

U64(n) == <<n % LimbBase, (n \div LimbBase) % LimbBase, 0, 0>>

Zero64 == U64(0)

\* a + n for a small n: the wrapped sum and whether it overflowed 64 bits
Add64(a, n) ==
    LET s1 == a[1] + n
        s2 == a[2] + (s1 \div LimbBase)
        s3 == a[3] + (s2 \div LimbBase)
        s4 == a[4] + (s3 \div LimbBase)
    IN  [val |-> <<s1 % LimbBase, s2 % LimbBase, s3 % LimbBase, s4 % LimbBase>>,
         overflow |-> s4 \div LimbBase > 0]

\* a < b on u64
Lt64(a, b) ==
    \/ a[4] < b[4]
    \/ a[4] = b[4] /\ a[3] < b[3]
    \/ a[4] = b[4] /\ a[3] = b[3] /\ a[2] < b[2]
    \/ a[4] = b[4] /\ a[3] = b[3] /\ a[2] = b[2] /\ a[1] < b[1]

(***************************************************************************)
(* Program constants.                                                      *)
(***************************************************************************)
BT_DEPTH == 64

\* `rbp < 1024 * 64`
MinStackAddr == U64(1024 * 64)

(***************************************************************************)
(* Bounds of the model.                                                    *)
(***************************************************************************)
\* short chains have 0..SmallChain frames; long ones BT_DEPTH-1..BT_DEPTH+1
SmallChain == 3
\* a cyclic chain closes back over at most MaxPeriod frames
MaxPeriod == 3
\* a stored return address of 0 sits in one of the first MaxZeroIdx frames
MaxZeroIdx == 2
\* an injected read fault sits in one of the first MaxFaultStep frames
MaxFaultStep == 3

VARIABLES
    \* ---- get_thread_trace ----
    mem,              \* debuggee memory as dbg_get_mem sees it
    thread_rbp,       \* thread_data.rbp
    overflow_checks,  \* build profile: TRUE = `rbp + 8` panics on overflow
    wpc,              \* position inside get_thread_trace
    rbp, prev, idx, backtrace,
    reads             \* addresses handed to dbg_get_mem, in order

wvars == <<mem, thread_rbp, overflow_checks, wpc, rbp, prev, idx, backtrace, reads>>

VARIABLES
    \* ---- cmd_print_stacks ----
    pc,               \* position inside cmd_print_stacks
    all_tids,         \* the pending-resume queue (VecDeque)
    tids,             \* the valid prefix tids[0..sz) of the page buffer
    tidx,             \* `idx` of the for loop over a page
    start_tid,
    \* ---- the debuggee and the debug channel ----
    handle,           \* "none", "live" or "detached"
    proc_paused,      \* the process-level pause flag
    threads,          \* ids of the live threads
    paused,           \* ids of the paused threads
    next_tid,         \* the id the next spawned thread gets
    \* ---- history ----
    last_op,          \* the last channel call and its result
    listed,           \* ids returned by dbg_list_threads, in order
    rescanned,        \* those of them returned to the resume re-scan
    snapshots,        \* ids whose print_stack_trace completed, in order
    resumed,          \* <<id, result>> of every dbg_resume_thread call, in order
    auto_paused,      \* ids spawned, and paused by the OS, while the flag was set
    exited,           \* ids of the threads that exited
    spawned,          \* number of threads spawned since the start
    flags             \* milestones reached: see InitSession

svars == <<pc, all_tids, tids, tidx, start_tid, handle, proc_paused, threads, paused,
           next_tid, last_op, listed, rescanned, snapshots, resumed, auto_paused,
           exited, spawned, flags>>

vars == <<wvars, svars>>

(***************************************************************************)
(* Debuggee memory.  A cell is [st, val]: st = "ok" (the read returns      *)
(* Ok(8) and val), "err" (the read returns Err) or "short" (the read       *)
(* returns Ok(sz) with sz # 8).  An address outside DOMAIN mem is          *)
(* unmapped: the read returns Err.                                         *)
(***************************************************************************)
DbgGetMem(addr) ==
    IF addr \notin DOMAIN mem \/ mem[addr].st = "err"
    THEN [ok |-> FALSE, sz |-> 0, val |-> Zero64]
    ELSE [ok |-> TRUE, sz |-> IF mem[addr].st = "ok" THEN 8 ELSE 4, val |-> mem[addr].val]

\* frame i of a chain sits at 64 KiB + 16 i; a code address
FrameAddr(i) == <<16 * i, 1, 0, 0>>
RetAddr(i) == <<i, 64, 0, 0>>
\* a frame pointer below the 64 KiB threshold, and the last one whose +8 wraps
LowFrame == U64(4096)
HighFrame == <<LimbBase - 8, LimbBase - 1, LimbBase - 1, LimbBase - 1>>

ChainLens == (0 .. SmallChain) \cup ((BT_DEPTH - 1) .. (BT_DEPTH + 1))

\* what the saved frame pointer of the last frame of an L-frame chain holds
Tails(L) ==
    {[kind |-> k, period |-> 0] : k \in {"null", "low", "lowmapped", "high", "highmapped", "unmapped"}}
    \cup {[kind |-> "cycle", period |-> p] : p \in 1 .. (IF L < MaxPeriod THEN L ELSE MaxPeriod)}

TailVal(L, tail) ==
    CASE tail.kind = "null" -> Zero64
      [] tail.kind \in {"low", "lowmapped"} -> LowFrame
      [] tail.kind \in {"high", "highmapped"} -> HighFrame
      [] tail.kind = "unmapped" -> FrameAddr(L + 1)
      [] tail.kind = "cycle" -> FrameAddr(L + 1 - tail.period)

Faults(L) ==
    {[step |-> 0, ret |-> FALSE, st |-> "ok"]}
    \cup {[step |-> j, ret |-> r, st |-> s] :
            j \in 1 .. (IF L < MaxFaultStep THEN L ELSE MaxFaultStep),
            r \in BOOLEAN, s \in {"err", "short"}}

Cell(s, v) == [st |-> s, val |-> v]

\* the memory of an L-frame chain
ChainMem(L, tail, zeroAt, fault) ==
    LET frames == {FrameAddr(i) : i \in 1 .. L}
        rets == {Add64(FrameAddr(i), 8).val : i \in 1 .. L}
        chain == [a \in frames \cup rets |->
                    LET i == a[1] \div 16
                        isRet == a[1] % 16 = 8
                    IN  Cell(IF fault.step = i /\ fault.ret = isRet THEN fault.st ELSE "ok",
                             IF isRet THEN (IF i = zeroAt THEN Zero64 ELSE RetAddr(i))
                             ELSE IF i < L THEN FrameAddr(i + 1) ELSE TailVal(L, tail))]
        extra == CASE tail.kind = "lowmapped" ->
                        (LowFrame :> Cell("ok", Zero64)) @@
                        (Add64(LowFrame, 8).val :> Cell("ok", RetAddr(L + 1)))
                   [] tail.kind = "highmapped" ->
                        (HighFrame :> Cell("ok", Zero64)) @@
                        (Add64(HighFrame, 8).val :> Cell("ok", RetAddr(L + 1)))
                   [] OTHER -> <<>>
    IN  IF extra = <<>> THEN chain ELSE chain @@ extra

(***************************************************************************)
(* The session before dbg_attach: nothing called, nothing recorded.        *)
(***************************************************************************)
NoFlags ==
    [pause_ok |-> FALSE,        \* dbg_pause_process returned Ok
     scan_ended |-> FALSE,      \* the snapshot scan got an empty page
     resume_issued |-> FALSE,   \* dbg_resume_process was called
     rescan_ended |-> FALSE,    \* the resume re-scan got an empty page
     detach_issued |-> FALSE,   \* dbg_detach was called
     put_issued |-> FALSE,      \* SysObj::put was called after the detach
     early_op |-> FALSE,        \* a list, snapshot or read before pause_ok
     early_resume |-> FALSE,    \* a resume call before scan_ended
     late_resume |-> FALSE,     \* a dbg_resume_thread call after the detach
     resume_calls |-> 0]        \* number of dbg_resume_process calls

NoOp == [op |-> "none", arg |-> 0, res |-> "none"]

SessionStart(ts, nxt) ==
    /\ pc = "attach"
    /\ all_tids = <<>>
    /\ tids = <<>>
    /\ tidx = 0
    /\ start_tid = 0
    /\ handle = "none"
    /\ proc_paused = FALSE
    /\ threads = ts
    /\ paused = {}
    /\ next_tid = nxt
    /\ last_op = NoOp
    /\ listed = <<>>
    /\ rescanned = {}
    /\ snapshots = <<>>
    /\ resumed = <<>>
    /\ auto_paused = {}
    /\ exited = {}
    /\ spawned = 0
    /\ flags = NoFlags

SessionIdle == SessionStart({}, 0)

InitWalk ==
    /\ \E L \in ChainLens :
         \E tail \in Tails(L), zeroAt \in 0 .. (IF L < MaxZeroIdx THEN L ELSE MaxZeroIdx),
            fault \in Faults(L) :
           /\ mem = ChainMem(L, tail, zeroAt, fault)
           /\ thread_rbp = IF L = 0 THEN TailVal(0, tail) ELSE FrameAddr(1)
    /\ overflow_checks \in BOOLEAN
    /\ wpc = "entry"
    /\ rbp = Zero64
    /\ prev = Zero64
    /\ idx = 0
    /\ backtrace = [i \in 0 .. (BT_DEPTH - 1) |-> Zero64]
    /\ reads = <<>>
    /\ SessionIdle

(***************************************************************************)
(* get_thread_trace, lines 86-142.                                         *)
(***************************************************************************)
\* WalkEntry without the early return on a zero frame pointer, entering the
\* loop body at once
WalkEntryNoZeroCheck ==
    /\ wpc = "entry"
    /\ backtrace' = [i \in 0 .. (BT_DEPTH - 1) |-> Zero64]
    /\ rbp' = thread_rbp
    /\ prev' = thread_rbp
    /\ idx' = 0
    /\ wpc' = "read_ip"
    /\ UNCHANGED <<mem, thread_rbp, overflow_checks, reads>>

\* WalkEntry with the array filled with u64::MAX, not with 0
WalkEntryDirtyArray ==
    /\ wpc = "entry"
    /\ backtrace' = [i \in 0 .. (BT_DEPTH - 1) |->
                       <<LimbBase - 1, LimbBase - 1, LimbBase - 1, LimbBase - 1>>]
    /\ rbp' = thread_rbp
    /\ prev' = Zero64
    /\ idx' = 0
    /\ wpc' = IF thread_rbp = Zero64 THEN "returned" ELSE "loop"
    /\ UNCHANGED <<mem, thread_rbp, overflow_checks, reads>>

\* lines 90-97
WalkEntry ==
    /\ wpc = "entry"
    /\ backtrace' = [i \in 0 .. (BT_DEPTH - 1) |-> Zero64]
    /\ rbp' = thread_rbp
    /\ prev' = Zero64
    /\ idx' = 0
    /\ wpc' = IF thread_rbp = Zero64 THEN "returned" ELSE "loop"
    /\ UNCHANGED <<mem, thread_rbp, overflow_checks, reads>>

\* StopWalk without the `rbp < 1024 * 64` break
StopWalkNoThreshold(p, fp) == p = fp \/ fp = Zero64

\* StopWalk without the `prev == rbp` break
StopWalkNoPrev(p, fp) == fp = Zero64 \/ Lt64(fp, MinStackAddr)

\* the three break conditions at the head of an iteration, lines 100-108
StopWalk(p, fp) == p = fp \/ fp = Zero64 \/ Lt64(fp, MinStackAddr)

\* WalkLoopHead as a `loop` without the range 0..BT_DEPTH
WalkLoopHeadUnbounded ==
    /\ wpc = "loop"
    /\ IF StopWalk(prev, rbp)
       THEN wpc' = "returned" /\ prev' = prev
       ELSE wpc' = "read_ip" /\ prev' = rbp
    /\ UNCHANGED <<mem, thread_rbp, overflow_checks, rbp, idx, backtrace, reads>>

\* `for idx in 0..BT_DEPTH`, the breaks, `prev = rbp`: lines 99-109
WalkLoopHead ==
    /\ wpc = "loop"
    /\ IF idx >= BT_DEPTH \/ StopWalk(prev, rbp)
       THEN wpc' = "returned" /\ prev' = prev
       ELSE wpc' = "read_ip" /\ prev' = rbp
    /\ UNCHANGED <<mem, thread_rbp, overflow_checks, rbp, idx, backtrace, reads>>

\* IpSlot reading the next slot up
IpSlotOff16(fp) == Add64(fp, 16)

\* the address of the return-address slot of the frame at fp: `rbp + 8`, line 119
IpSlot(fp) == Add64(fp, 8)

\* WalkReadIp going on to the next read after an Err instead of returning
WalkReadIpSwallowErr ==
    /\ wpc = "read_ip"
    /\ LET sum == IpSlot(rbp)
           r == DbgGetMem(sum.val)
       IN  IF sum.overflow /\ overflow_checks
           THEN wpc' = "panicked" /\ UNCHANGED <<backtrace, reads>>
           ELSE /\ reads' = Append(reads, sum.val)
                /\ IF ~r.ok
                   THEN wpc' = "read_rbp" /\ UNCHANGED backtrace
                   ELSE IF r.sz # 8
                   THEN wpc' = "panicked" /\ UNCHANGED backtrace
                   ELSE wpc' = "read_rbp" /\ backtrace' = [backtrace EXCEPT ![idx] = r.val]
    /\ UNCHANGED <<mem, thread_rbp, overflow_checks, rbp, prev, idx>>

\* `ip = *(rbp+8)`, lines 119-127
WalkReadIp ==
    /\ wpc = "read_ip"
    /\ LET sum == IpSlot(rbp)
           r == DbgGetMem(sum.val)
       IN  IF sum.overflow /\ overflow_checks
           THEN wpc' = "panicked" /\ UNCHANGED <<backtrace, reads>>
           ELSE /\ reads' = Append(reads, sum.val)
                /\ IF ~r.ok
                   THEN wpc' = "returned" /\ UNCHANGED backtrace
                   ELSE IF r.sz # 8
                   THEN wpc' = "panicked" /\ UNCHANGED backtrace
                   ELSE wpc' = "read_rbp" /\ backtrace' = [backtrace EXCEPT ![idx] = r.val]
    /\ UNCHANGED <<mem, thread_rbp, overflow_checks, rbp, prev, idx>>

\* `rbp = *rbp`, lines 130-138, and the loop's increment of idx
WalkReadRbp ==
    /\ wpc = "read_rbp"
    /\ LET r == DbgGetMem(rbp)
       IN  /\ reads' = Append(reads, rbp)
           /\ IF ~r.ok
              THEN wpc' = "returned" /\ UNCHANGED <<rbp, idx>>
              ELSE IF r.sz # 8
              THEN wpc' = "panicked" /\ UNCHANGED <<rbp, idx>>
              ELSE wpc' = "loop" /\ rbp' = r.val /\ idx' = idx + 1
    /\ UNCHANGED <<mem, thread_rbp, overflow_checks, prev, backtrace>>

NextWalk ==
    \/ WalkEntry /\ UNCHANGED svars
    \/ WalkLoopHead /\ UNCHANGED svars
    \/ WalkReadIp /\ UNCHANGED svars
    \/ WalkReadRbp /\ UNCHANGED svars

SpecWalk == InitWalk /\ [][NextWalk]_vars

\* get_thread_trace has returned its array, or has panicked
WalkDone == wpc \in {"returned", "panicked"}

(***************************************************************************)
(* cmd_print_stacks: constants and bounds.                                 *)
(***************************************************************************)
\* `let mut tids = [0_u64; 64]`
PageCap == 64

\* the largest number of threads alive at the attach
MaxThreads == 130
\* threads the debuggee spawns during the session
MaxSpawn == 2
\* only the threads with an id up to MaxExitTid exit during the session
MaxExitTid == 1

ThreadCounts == {1, 3, PageCap, PageCap + 2, MaxThreads}

\* the walker inside print_stack_trace returns, or panics (lines 119, 121, 132)
WalkOutcomes == {"returned", "panicked"}

Terminal == {"done", "exited", "panicked"}

(***************************************************************************)
(* The debug channel (moto_sys::SysRay), as the session uses it.           *)
(***************************************************************************)
RECURSIVE Ascending(_)
Ascending(S) ==
    IF S = {} THEN <<>>
    ELSE LET m == CHOOSE x \in S : \A y \in S : x <= y
         IN  <<m>> \o Ascending(S \ {m})

\* up to PageCap live ids >= start, ascending
DbgListThreads(start) ==
    LET S == {t \in threads : t >= start}
    IN  Ascending({t \in S : Cardinality({u \in S : u < t}) < PageCap})

DbgGetThreadData(tid) == IF tid \in threads THEN "Ok" ELSE "NotFound"

\* the results dbg_resume_thread may give for tid
DbgResumeThread(tid) ==
    (IF tid \notin threads THEN {"NotFound"}
     ELSE IF tid \in paused THEN {"Ok"}
     ELSE {"AlreadyInUse", "NotReady"})
    \cup {"InternalError"}

\* any other call succeeds or fails
CallResults == {"Ok", "Err"}

\* what SysObj::put may give on the detached handle
PutResults == {"Ok", "BadHandle", "InvalidArgument"}

Op(o, a, r) == [op |-> o, arg |-> a, res |-> r]

(***************************************************************************)
(* The debuggee: it spawns threads and its threads exit, at any time.      *)
(* A new thread gets the next id; it is paused by the OS when the process  *)
(* pause flag is set.                                                      *)
(***************************************************************************)
Spawn ==
    /\ pc \notin Terminal
    /\ spawned < MaxSpawn
    /\ spawned' = spawned + 1
    /\ threads' = threads \cup {next_tid}
    /\ next_tid' = next_tid + 1
    /\ paused' = IF proc_paused THEN paused \cup {next_tid} ELSE paused
    /\ auto_paused' = IF proc_paused THEN auto_paused \cup {next_tid} ELSE auto_paused
    /\ UNCHANGED <<pc, all_tids, tids, tidx, start_tid, handle, proc_paused, last_op,
                   listed, rescanned, snapshots, resumed, exited, flags>>

Exit ==
    /\ pc \notin Terminal
    /\ \E t \in threads :
         /\ t <= MaxExitTid
         /\ threads' = threads \ {t}
         /\ paused' = paused \ {t}
         /\ exited' = exited \cup {t}
    /\ UNCHANGED <<pc, all_tids, tids, tidx, start_tid, handle, proc_paused, next_tid,
                   last_op, listed, rescanned, snapshots, resumed, auto_paused, spawned,
                   flags>>

(***************************************************************************)
(* cmd_print_stacks, lines 175-262.                                        *)
(***************************************************************************)
\* the start id handed to dbg_list_threads by the snapshot scan, line 202
ListStart(st) == st + 1

\* RescanStart asking again for the last id of the page before
RescanStartBehind(st) == st - 1

\* RescanStart starting the re-scan over from the first id
RescanFromFirst(st) == 0 * st + 1

\* the start id handed to dbg_list_threads by the resume re-scan, line 233
RescanStart(st) == st + 1

\* `start_tid = tids[sz - 1] + 1`, lines 211 and 247
NextStartTid(last) == last + 1

\* ResumeTolerated with no assert at all: every error is let through
ResumeToleratedAnyErr(res) == res = "Ok" \/ res # "Ok"

\* ResumeTolerated without NotFound
ResumeToleratedNoNotFound(res) ==
    res = "Ok" \/ res = "AlreadyInUse" \/ res = "NotReady"

\* the assert on a dbg_resume_thread result, lines 220-226
ResumeTolerated(res) ==
    res = "Ok" \/ res = "AlreadyInUse" \/ res = "NotFound" \/ res = "NotReady"

\* PutVerified taking any error for the rejection
PutVerifiedAnyErr(res) == res # "Ok"

\* the assert_eq on SysObj::put(dbg_handle).err().unwrap(), lines 252-255
PutVerified(res) == res # "Ok" /\ res = "BadHandle"

\* EndOfScan stopping at the first page that is not full
EndOfScanShortPage(page) == Len(page) < PageCap

\* `sz == 0 { break }`, lines 203 and 234
EndOfScan(page) == Len(page) = 0

Mark(f) == [flags EXCEPT ![f] = TRUE]

\* AfterScan going from the scan to the drain of the queue at once
AfterScanNoResumeProcess == "drain"

\* the statement that follows the `break` of the scan loop, lines 205-216
AfterScan == "resume_process"

\* dbg_attach, lines 176-188: any failure is exit(1)
Attach ==
    /\ pc = "attach"
    /\ \E res \in {"Ok", "NotFound", "Err"} :
         /\ last_op' = Op("attach", 0, res)
         /\ handle' = IF res = "Ok" THEN "live" ELSE handle
         /\ pc' = IF res = "Ok" THEN "pause" ELSE "exited"
    /\ UNCHANGED <<all_tids, tids, tidx, start_tid, proc_paused, threads, paused, next_tid,
                   listed, rescanned, snapshots, resumed, auto_paused, exited, spawned,
                   flags>>

\* dbg_pause_process(..).unwrap(), the 50 ms sleep, the locals: lines 192-200.
\* The threads alive at the call are taken to be paused when the sleep ends.
Pause ==
    /\ pc = "pause"
    /\ \E res \in CallResults :
         /\ last_op' = Op("pause_process", 0, res)
         /\ IF res = "Ok"
            THEN /\ proc_paused' = TRUE
                 /\ paused' = threads
                 /\ flags' = Mark("pause_ok")
                 /\ pc' = "scan_list"
            ELSE /\ pc' = "panicked"
                 /\ UNCHANGED <<proc_paused, paused, flags>>
    /\ all_tids' = <<>>
    /\ tids' = <<>>
    /\ start_tid' = 0
    /\ UNCHANGED <<tidx, handle, threads, next_tid, listed, rescanned, snapshots, resumed,
                   auto_paused, exited, spawned>>

\* one turn of the scan loop up to the for loop, lines 202-205
ScanList ==
    /\ pc = "scan_list"
    /\ \E res \in CallResults :
         LET page == DbgListThreads(ListStart(start_tid))
         IN  /\ last_op' = Op("list_threads", ListStart(start_tid), res)
             /\ IF res # "Ok"
                THEN /\ pc' = "panicked"
                     /\ flags' = [flags EXCEPT !.early_op = @ \/ ~flags.pause_ok]
                     /\ UNCHANGED <<tids, tidx, listed>>
                ELSE /\ tids' = page
                     /\ tidx' = 0
                     /\ listed' = listed \o page
                     /\ flags' = [flags EXCEPT !.early_op = @ \/ ~flags.pause_ok,
                                               !.scan_ended = page = <<>>]
                     /\ pc' = IF EndOfScan(page) THEN AfterScan ELSE "scan_thread"
    /\ UNCHANGED <<all_tids, start_tid, handle, proc_paused, threads, paused, next_tid,
                   rescanned, snapshots, resumed, auto_paused, exited, spawned>>

\* one turn of the for loop, lines 207-210, with print_stack_trace (lines
\* 144-173); after the last one, line 211
ScanThread ==
    /\ pc = "scan_thread"
    /\ \E wres \in WalkOutcomes :
         LET tid == tids[tidx + 1]
             res == DbgGetThreadData(tid)
         IN  /\ all_tids' = Append(all_tids, tid)
             /\ last_op' = Op("get_thread_data", tid, res)
             /\ flags' = [flags EXCEPT !.early_op = @ \/ ~flags.pause_ok]
             /\ IF res # "Ok" \/ wres = "panicked"
                THEN /\ pc' = "panicked"
                     /\ UNCHANGED <<tidx, start_tid, snapshots>>
                ELSE /\ snapshots' = Append(snapshots, tid)
                     /\ tidx' = tidx + 1
                     /\ IF tidx + 1 = Len(tids)
                        THEN /\ start_tid' = NextStartTid(tids[Len(tids)])
                             /\ pc' = "scan_list"
                        ELSE UNCHANGED <<start_tid, pc>>
    /\ UNCHANGED <<tids, handle, proc_paused, threads, paused, next_tid, listed, rescanned,
                   resumed, auto_paused, exited, spawned>>

\* dbg_resume_process(..).unwrap(), line 216
ResumeProcess ==
    /\ pc = "resume_process"
    /\ \E res \in CallResults :
         /\ last_op' = Op("resume_process", 0, res)
         /\ proc_paused' = IF res = "Ok" THEN FALSE ELSE proc_paused
         /\ pc' = IF res = "Ok" THEN "drain" ELSE "panicked"
    /\ flags' = [flags EXCEPT !.resume_issued = TRUE,
                              !.early_resume = @ \/ ~flags.scan_ended,
                              !.resume_calls = @ + 1]
    /\ UNCHANGED <<all_tids, tids, tidx, start_tid, handle, threads, paused, next_tid,
                   listed, rescanned, snapshots, resumed, auto_paused, exited, spawned>>

\* dbg_resume_thread(dbg_handle, tid) and the assert on its error
ResumeThread(tid, res, then) ==
    /\ last_op' = Op("resume_thread", tid, res)
    /\ resumed' = Append(resumed, <<tid, res>>)
    /\ paused' = IF res = "Ok" THEN paused \ {tid} ELSE paused
    /\ flags' = [flags EXCEPT !.early_resume = @ \/ ~flags.scan_ended,
                              !.late_resume = @ \/ flags.detach_issued]
    /\ pc' = IF ResumeTolerated(res) THEN then ELSE "panicked"

\* one turn of `while let Some(tid) = all_tids.pop_front()`, lines 219-227
Drain ==
    /\ pc = "drain"
    /\ IF all_tids = <<>>
       THEN /\ pc' = "rescan_list"
            /\ UNCHANGED <<all_tids, last_op, resumed, paused, flags>>
       ELSE /\ all_tids' = Tail(all_tids)
            /\ \E res \in DbgResumeThread(Head(all_tids)) :
                 ResumeThread(Head(all_tids), res, "drain")
    /\ UNCHANGED <<tids, tidx, start_tid, handle, proc_paused, threads, next_tid, listed,
                   rescanned, snapshots, auto_paused, exited, spawned>>

\* one turn of the re-scan loop up to the for loop, lines 233-236
RescanList ==
    /\ pc = "rescan_list"
    /\ \E res \in CallResults :
         LET page == DbgListThreads(RescanStart(start_tid))
         IN  /\ last_op' = Op("list_threads", RescanStart(start_tid), res)
             /\ IF res # "Ok"
                THEN /\ pc' = "panicked"
                     /\ UNCHANGED <<tids, tidx, listed, rescanned, flags>>
                ELSE /\ tids' = page
                     /\ tidx' = 0
                     /\ listed' = listed \o page
                     /\ rescanned' = rescanned \cup {page[i] : i \in 1 .. Len(page)}
                     /\ flags' = [flags EXCEPT !.rescan_ended = page = <<>>]
                     /\ pc' = IF EndOfScan(page) THEN "detach" ELSE "rescan_thread"
    /\ UNCHANGED <<all_tids, start_tid, handle, proc_paused, threads, paused, next_tid,
                   snapshots, resumed, auto_paused, exited, spawned>>

\* one turn of the for loop, lines 238-246; after the last one, line 247
RescanThread ==
    /\ pc = "rescan_thread"
    /\ \E res \in DbgResumeThread(tids[tidx + 1]) :
         /\ ResumeThread(tids[tidx + 1], res,
                         IF tidx + 1 = Len(tids) THEN "rescan_list" ELSE "rescan_thread")
         /\ IF ResumeTolerated(res)
            THEN /\ tidx' = tidx + 1
                 /\ start_tid' = IF tidx + 1 = Len(tids)
                                 THEN NextStartTid(tids[Len(tids)]) ELSE start_tid
            ELSE UNCHANGED <<tidx, start_tid>>
    /\ UNCHANGED <<all_tids, tids, handle, proc_paused, threads, next_tid, listed,
                   rescanned, snapshots, auto_paused, exited, spawned>>

\* dbg_detach(..).unwrap(), line 250
Detach ==
    /\ pc = "detach"
    /\ \E res \in CallResults :
         /\ last_op' = Op("detach", 0, res)
         /\ handle' = IF res = "Ok" THEN "detached" ELSE handle
         /\ pc' = IF res = "Ok" THEN "put" ELSE "panicked"
    /\ flags' = Mark("detach_issued")
    /\ UNCHANGED <<all_tids, tids, tidx, start_tid, proc_paused, threads, paused, next_tid,
                   listed, rescanned, snapshots, resumed, auto_paused, exited, spawned>>

\* the check of the detached handle, the sleep and `Ok(())`: lines 252-261
Put ==
    /\ pc = "put"
    /\ \E res \in PutResults :
         /\ last_op' = Op("put", 0, res)
         /\ pc' = IF PutVerified(res) THEN "done" ELSE "panicked"
    /\ flags' = Mark("put_issued")
    /\ UNCHANGED <<all_tids, tids, tidx, start_tid, handle, proc_paused, threads, paused,
                   next_tid, listed, rescanned, snapshots, resumed, auto_paused, exited,
                   spawned>>

WalkIdle ==
    /\ mem = <<>>
    /\ thread_rbp = Zero64
    /\ overflow_checks = FALSE
    /\ wpc = "idle"
    /\ rbp = Zero64
    /\ prev = Zero64
    /\ idx = 0
    /\ backtrace = <<>>
    /\ reads = <<>>

Init ==
    /\ WalkIdle
    /\ \E first \in {0, 1}, n \in ThreadCounts :
         SessionStart(first .. (first + n - 1), first + n)

Next ==
    \/ Attach /\ UNCHANGED wvars
    \/ Pause /\ UNCHANGED wvars
    \/ ScanList /\ UNCHANGED wvars
    \/ ScanThread /\ UNCHANGED wvars
    \/ ResumeProcess /\ UNCHANGED wvars
    \/ Drain /\ UNCHANGED wvars
    \/ RescanList /\ UNCHANGED wvars
    \/ RescanThread /\ UNCHANGED wvars
    \/ Detach /\ UNCHANGED wvars
    \/ Put /\ UNCHANGED wvars
    \/ Spawn /\ UNCHANGED wvars
    \/ Exit /\ UNCHANGED wvars

Spec == Init /\ [][Next]_vars

(***************************************************************************)
(* The frame-pointer chain a memory holds, read off the memory alone.      *)
(***************************************************************************)
Readable(a) == a \in DOMAIN mem /\ mem[a].st = "ok"

\* a read of a returns Err
Fails(a) == a \notin DOMAIN mem \/ mem[a].st = "err"

CellVal(a) == IF a \in DOMAIN mem THEN mem[a].val ELSE Zero64

\* the return address stored in the frame at f
StoredRet(f) == CellVal(Add64(f, 8).val)

\* The frames met by following the saved frame pointers from p: the chain
\* ends at a saved pointer of 0 ("null"), at one that is the frame number
\* `back` of the chain again ("cycle"), or at a frame whose saved pointer
\* cannot be read ("broken").
RECURSIVE FollowChain(_, _)
FollowChain(seq, p) ==
    IF p = Zero64 THEN [frames |-> seq, end |-> "null", back |-> 0]
    ELSE IF \E i \in 1 .. Len(seq) : seq[i] = p
    THEN [frames |-> seq, end |-> "cycle",
          back |-> CHOOSE i \in 1 .. Len(seq) : seq[i] = p]
    ELSE IF ~Readable(p) \/ Len(seq) > BT_DEPTH + 1
    THEN [frames |-> Append(seq, p), end |-> "broken", back |-> 0]
    ELSE FollowChain(Append(seq, p), mem[p].val)

Chain == FollowChain(<<>>, thread_rbp)

\* both slots of every frame of the chain can be read
ChainReadable(c) ==
    \A i \in 1 .. Len(c.frames) :
        Readable(c.frames[i]) /\ Readable(Add64(c.frames[i], 8).val)

\* every frame is a plausible stack address whose return-address slot is
\* within the 64 bits
ChainPlausible(c) ==
    \A i \in 1 .. Len(c.frames) :
        ~Lt64(c.frames[i], MinStackAddr) /\ ~Add64(c.frames[i], 8).overflow

\* slots 0..n-1 hold the return addresses of the first n frames, the rest 0
HoldsFirst(c, n) ==
    \A i \in 0 .. (BT_DEPTH - 1) :
        backtrace[i] = IF i < n THEN StoredRet(c.frames[i + 1]) ELSE Zero64

(***************************************************************************)
(* C4 as stated: for every chain of L <= 64 frames that ends in a null     *)
(* saved pointer, has no cycle and whose reads all succeed, the walk        *)
(* returns the L stored return addresses innermost first, all nonzero,     *)
(* and 0 in the remaining slots.                                           *)
(***************************************************************************)
C4_WalkReturnsWholeChain ==
    LET c == Chain
    IN  (WalkDone /\ c.end = "null" /\ Len(c.frames) <= BT_DEPTH /\ ChainReadable(c))
        => /\ wpc = "returned"
           /\ HoldsFirst(c, Len(c.frames))
           /\ \A i \in 0 .. (Len(c.frames) - 1) : backtrace[i] # Zero64

(***************************************************************************)
(* C4 amended: the same, for the chains whose frames all lie at or above   *)
(* 64 KiB (and at most at 2^64 - 9) and whose stored return addresses are  *)
(* all nonzero.                                                            *)
(***************************************************************************)
C4_WalkReturnsPlausibleChain ==
    LET c == Chain
    IN  (/\ WalkDone /\ c.end = "null" /\ Len(c.frames) <= BT_DEPTH
         /\ ChainReadable(c) /\ ChainPlausible(c)
         /\ \A i \in 1 .. Len(c.frames) : StoredRet(c.frames[i]) # Zero64)
        => /\ wpc = "returned"
           /\ HoldsFirst(c, Len(c.frames))
           /\ \A i \in 0 .. (Len(c.frames) - 1) : backtrace[i] # Zero64

\* C4 witness: a full-depth plausible chain has been walked
C4_Witness ==
    LET c == Chain
    IN  /\ wpc = "returned" /\ c.end = "null" /\ Len(c.frames) = BT_DEPTH
        /\ ChainReadable(c) /\ ChainPlausible(c)
        /\ \A i \in 1 .. Len(c.frames) : StoredRet(c.frames[i]) # Zero64
        /\ backtrace[BT_DEPTH - 1] = StoredRet(c.frames[BT_DEPTH])

(***************************************************************************)
(* C5 as stated: for a chain that comes back to one of its frames after k  *)
(* frames, whatever the period, the walk returns exactly the k return      *)
(* addresses.                                                              *)
(***************************************************************************)
C5_CycleAnyPeriodStops ==
    LET c == Chain
    IN  (WalkDone /\ c.end = "cycle" /\ Len(c.frames) <= BT_DEPTH /\ ChainReadable(c))
        => wpc = "returned" /\ HoldsFirst(c, Len(c.frames))

(***************************************************************************)
(* C5 amended: when the k-th frame's saved pointer is that frame itself    *)
(* the walk returns exactly the k return addresses; when the chain comes   *)
(* back to an earlier frame (period 2 or more) the walk goes round the     *)
(* cycle until all BT_DEPTH slots are filled.  Frames at or above 64 KiB.  *)
(***************************************************************************)
C5_OnlySelfCycleStops ==
    LET c == Chain
        k == Len(c.frames)
        period == k - c.back + 1
    IN  (/\ WalkDone /\ c.end = "cycle" /\ k <= BT_DEPTH
         /\ ChainReadable(c) /\ ChainPlausible(c))
        => /\ wpc = "returned"
           /\ period = 1 => HoldsFirst(c, k)
           /\ period > 1 =>
                \A i \in 0 .. (BT_DEPTH - 1) :
                    backtrace[i] = StoredRet(c.frames[IF i < k THEN i + 1
                                                      ELSE c.back + ((i - k) % period)])

\* C5 witness: a chain of 3 frames whose last frame points to itself has been walked
C5_Witness ==
    LET c == Chain
    IN  /\ wpc = "returned" /\ c.end = "cycle" /\ Len(c.frames) = 3 /\ c.back = 3
        /\ ChainReadable(c)
        /\ backtrace[2] = StoredRet(c.frames[3]) /\ backtrace[3] = Zero64

(***************************************************************************)
(* C6.  The walk returns at its first failing read, so a failed read is    *)
(* the last of `reads`: read number n belongs to step (n + 1) \div 2, and  *)
(* is the return-address read when n is odd.                               *)
(***************************************************************************)
FailStep == (Len(reads) + 1) \div 2

\* slots 0..n-1 hold what the return-address reads of steps 1..n gave
HoldsReads(n) ==
    \A i \in 0 .. (BT_DEPTH - 1) :
        backtrace[i] = IF i < n THEN CellVal(reads[2 * i + 1]) ELSE Zero64

ReadFailed == WalkDone /\ reads # <<>> /\ Fails(reads[Len(reads)])

\* C6 as stated: whichever read of step j fails, the walk returns the j-1
\* addresses of the earlier steps and 0 in every other slot.
C6_FailedReadKeepsEarlierSteps == ReadFailed => wpc = "returned" /\ HoldsReads(FailStep - 1)

\* C6 amended: a failed return-address read at step j leaves the j-1
\* addresses of the earlier steps; a failed frame-pointer read at step j
\* leaves j addresses, the one read in step j included; no error is raised
\* and every other slot is 0.
C6_FailedReadKeepsWhatWasRead ==
    ReadFailed =>
        /\ wpc = "returned"
        /\ HoldsReads(IF Len(reads) % 2 = 1 THEN FailStep - 1 ELSE FailStep)

\* C6 witness: the frame-pointer read of step 2 failed after its return address
\* was stored
C6_Witness ==
    /\ ReadFailed /\ Len(reads) = 4
    /\ backtrace[1] = CellVal(reads[3]) /\ backtrace[1] # Zero64

(***************************************************************************)
(* The session: what the history says.                                     *)
(***************************************************************************)
Ids(seq) == {seq[i] : i \in 1 .. Len(seq)}

\* the ids dbg_resume_thread was called for
ResumedIds == {resumed[i][1] : i \in 1 .. Len(resumed)}

\* no id occurs twice
NoRepeat(ids, n) == Cardinality(ids) = n

(***************************************************************************)
(* C1: when the live threads fill more than one page and none is created   *)
(* or destroyed, a session that ends with Ok has snapshotted every live    *)
(* thread exactly once and called dbg_resume_thread for it exactly once.   *)
(***************************************************************************)
C1_EveryThreadSnapshotAndResumedOnce ==
    (pc = "done" /\ spawned = 0 /\ exited = {} /\ Cardinality(threads) > PageCap)
    => /\ Ids(snapshots) = threads /\ NoRepeat(Ids(snapshots), Len(snapshots))
       /\ ResumedIds = threads /\ NoRepeat(ResumedIds, Len(resumed))

(***************************************************************************)
(* C2: when the session stops after dbg_pause_process succeeded, with      *)
(* threads listed and before the snapshot scan came to its end,            *)
(* dbg_resume_process has been called and so has dbg_resume_thread for     *)
(* every id listed so far.                                                 *)
(***************************************************************************)
C2_ResumeAttemptedAfterFailedSnapshot ==
    (pc \in Terminal /\ flags.pause_ok /\ listed # <<>> /\ ~flags.scan_ended)
    => flags.resume_issued /\ Ids(listed) \subseteq ResumedIds

(***************************************************************************)
(* C3: once the resume re-scan has come to its end, every live thread that *)
(* was spawned and paused while the process pause flag was set has had its *)
(* dbg_resume_thread call and is not paused.                               *)
(***************************************************************************)
C3_SpawnedWhilePausedIsResumed ==
    flags.rescan_ended =>
        \A t \in auto_paused \cap threads : t \in ResumedIds /\ t \notin paused

(***************************************************************************)
(* C7: no id gets two dbg_resume_thread calls; once dbg_detach is called   *)
(* every id a list call returned has had exactly one; no                   *)
(* dbg_resume_thread call follows the detach.                              *)
(***************************************************************************)
C7_ListedResumedExactlyOnce ==
    /\ NoRepeat(ResumedIds, Len(resumed))
    /\ flags.detach_issued => Ids(listed) = ResumedIds
    /\ ~flags.late_resume

\* C7 witness: a session came to its end having resumed queued ids and
\* re-scanned ones
C7_Witness ==
    /\ pc = "done"
    /\ rescanned # {}
    /\ rescanned \subseteq ResumedIds
    /\ Len(snapshots) > 1
    /\ Ids(snapshots) \subseteq ResumedIds

(***************************************************************************)
(* C8: no list, snapshot or read before dbg_pause_process succeeded; no    *)
(* resume call before the snapshot scan got its empty page; dbg_detach     *)
(* only after the re-scan got its empty page; dbg_attach first and the     *)
(* phases in their order.                                                  *)
(***************************************************************************)
C8_PhasesInOrder ==
    /\ ~flags.early_op
    /\ ~flags.early_resume
    /\ flags.detach_issued => flags.rescan_ended
    /\ flags.rescan_ended => flags.resume_issued
    /\ flags.resume_issued => flags.scan_ended
    /\ flags.scan_ended => flags.pause_ok
    /\ flags.pause_ok => handle # "none"
    /\ (listed # <<>> \/ snapshots # <<>> \/ resumed # <<>>) => flags.pause_ok
    /\ flags.put_issued => flags.detach_issued

\* C8 witness: a whole session with snapshots and resumes
C8_Witness ==
    pc = "done" /\ snapshots # <<>> /\ resumed # <<>> /\ flags.rescan_ended

(***************************************************************************)
(* C9: a dbg_resume_thread call that fails with NotFound, AlreadyInUse or  *)
(* NotReady leaves the session in its resume loop, and a session that      *)
(* ends with Ok has called dbg_resume_thread for every listed id, the      *)
(* failed calls notwithstanding.                                           *)
(***************************************************************************)
BenignFailures == {"NotFound", "AlreadyInUse", "NotReady"}

C9_BenignResumeFailureGoesOn ==
    /\ (last_op.op = "resume_thread" /\ last_op.res \in BenignFailures)
       => pc \in {"drain", "rescan_list", "rescan_thread"}
    /\ pc = "done" => Ids(listed) \subseteq ResumedIds

\* C9 witness: a session ended with Ok after a NotFound that was followed by
\* more resumes, and after an AlreadyInUse or NotReady
C9_Witness ==
    /\ pc = "done"
    /\ \E i \in 1 .. Len(resumed) :
         /\ resumed[i][2] = "NotFound"
         /\ \E j \in (i + 1) .. Len(resumed) : resumed[j][2] = "Ok"
    /\ \E i \in 1 .. Len(resumed) : resumed[i][2] \in {"AlreadyInUse", "NotReady"}

(***************************************************************************)
(* C10: after a successful dbg_detach the session calls SysObj::put on the *)
(* handle; it ends with Ok only when that call was rejected with           *)
(* BadHandle, and panics when the call succeeded or failed otherwise.      *)
(***************************************************************************)
C10_DetachedHandleVerified ==
    /\ pc = "done" =>
         flags.put_issued /\ handle = "detached" /\ last_op = Op("put", 0, "BadHandle")
    /\ (last_op.op = "put" /\ last_op.res # "BadHandle") => pc = "panicked"
    /\ flags.put_issued => handle = "detached" /\ last_op.op = "put"

\* C10 witness: the session ended with Ok on a rejected put
C10_Witness == pc = "done" /\ last_op = Op("put", 0, "BadHandle") /\ handle = "detached"

(***************************************************************************)
(* C11: for a snapshot whose frame-pointer register is 0 the walk returns  *)
(* an all-zero backtrace and hands no address to dbg_get_mem.              *)
(***************************************************************************)
C11_ZeroFramePointerReadsNothing ==
    (thread_rbp = Zero64 /\ wpc # "entry")
    => /\ wpc = "returned"
       /\ reads = <<>>
       /\ \A i \in 0 .. (BT_DEPTH - 1) : backtrace[i] = Zero64

\* C11 witness: the walk of a zero frame pointer has returned
C11_Witness == thread_rbp = Zero64 /\ wpc = "returned" /\ reads = <<>>

(***************************************************************************)
(* C12: the first dbg_list_threads call asks for the ids from 0, and a     *)
(* call that follows a non-empty page asks for the ids from the last       *)
(* returned id + 1, in the snapshot scan and in the resume re-scan alike.  *)
(***************************************************************************)
C12_ListStartsFollowPages ==
    /\ pc = "scan_list" =>
         ListStart(start_tid) = IF listed = <<>> THEN 0 ELSE listed[Len(listed)] + 1
    /\ pc = "rescan_list" =>
         RescanStart(start_tid) = IF listed = <<>> THEN 0 ELSE listed[Len(listed)] + 1

(***************************************************************************)
(* C13: a read of the walker that does not deliver its 8 bytes, be it an   *)
(* Err or an Ok of another size, ends the walk with a return of the        *)
(* array: get_thread_trace never panics on a read.                         *)
(***************************************************************************)
LastRead == reads[Len(reads)]

C13_NoReadOutcomePanics ==
    (WalkDone /\ reads # <<>> /\ ~Readable(LastRead)) => wpc = "returned"

(***************************************************************************)
(* C14: a dbg_resume_thread result that is neither Ok nor one of           *)
(* AlreadyInUse, NotFound, NotReady panics at that call, in the drain of   *)
(* the queue and in the re-scan alike: it is the last resume call of the   *)
(* session, and the session does not end with Ok.                          *)
(***************************************************************************)
FatalResume(res) == res \notin ({"Ok"} \cup BenignFailures)

C14_OtherResumeFailureIsFatal ==
    /\ (last_op.op = "resume_thread" /\ FatalResume(last_op.res)) => pc = "panicked"
    /\ \A i \in 1 .. Len(resumed) :
         FatalResume(resumed[i][2]) => (i = Len(resumed) /\ pc = "panicked")

\* C14 witness: the panic on such a result in the re-scan, after the drain
\* of the queue went through
C14_Witness ==
    /\ pc = "panicked"
    /\ last_op.op = "resume_thread"
    /\ FatalResume(last_op.res)
    /\ last_op.arg \in rescanned
    /\ Len(resumed) > 1

(***************************************************************************)
(* C15: no dbg_get_mem call is made for a frame pointer that is 0, below   *)
(* 64 KiB or equal to the frame pointer of the iteration before; the walk  *)
(* that stops on one of them returns the entries of the iterations done,   *)
(* so a frame whose saved frame pointer is its own address gives one       *)
(* entry and is read once.                                                 *)
(***************************************************************************)
\* the frame pointer the reads of iteration k (from 1) were made for
FrameOfStep(k) == reads[2 * k]

SelfPointing(a) == Readable(a) /\ mem[a].val = a

C15_NoReadOfImplausibleFrame ==
    /\ wpc \in {"read_ip", "read_rbp"} =>
         /\ rbp # Zero64
         /\ ~Lt64(rbp, MinStackAddr)
         /\ idx >= 1 => rbp # FrameOfStep(idx)
    /\ (wpc = "returned" /\ Len(reads) = 2 * idx) => HoldsReads(idx)
    /\ \A k \in 1 .. (Len(reads) \div 2) :
         SelfPointing(FrameOfStep(k)) =>
            /\ Len(reads) = 2 * k
            /\ wpc \in {"loop", "returned"}
            /\ idx = k

\* C15 witness: the walk returned at the second visit of a self-pointing
\* frame, reached through an earlier frame, with both entries kept
C15_Witness ==
    /\ wpc = "returned"
    /\ idx = 2
    /\ Len(reads) = 4
    /\ SelfPointing(FrameOfStep(2))
    /\ rbp = prev
    /\ backtrace[1] # Zero64

(***************************************************************************)
(* C16.  An iteration stores the value its return-address read gave,       *)
(* whatever it is, and goes on to the frame-pointer read.                  *)
(***************************************************************************)
\* C16 as stated: in a returned array a slot holding 0 is followed by
\* slots holding 0 only.
C16_ZeroSlotEndsEntries ==
    wpc = "returned" =>
        \A i \in 0 .. (BT_DEPTH - 1) : \A j \in (i + 1) .. (BT_DEPTH - 1) :
            backtrace[i] = Zero64 => backtrace[j] = Zero64

\* C16 amended: in a returned array the slots from the number of stored
\* entries on hold 0, and each slot before holds the value read for it, 0
\* when the return address stored in the debuggee is 0.
C16_SlotsPastStoredEntriesAreZero ==
    wpc = "returned" => HoldsReads(Len(reads) \div 2)

\* C16 witness: a returned array with a 0 entry before a non-zero one
C16_Witness ==
    /\ wpc = "returned"
    /\ Len(reads) \div 2 >= 2
    /\ backtrace[0] = Zero64
    /\ backtrace[1] # Zero64

(***************************************************************************)
(* C17.  cmd_print_stacks runs on: a channel call returns and the next     *)
(* statement is executed.  The debuggee is under no such obligation.       *)
(***************************************************************************)
SessionStep ==
    \/ Attach \/ Pause \/ ScanList \/ ScanThread \/ ResumeProcess \/ Drain
    \/ RescanList \/ RescanThread \/ Detach \/ Put

\* the largest number of threads alive at the attach of such a session
MaxLiveThreads == 3

InitLive ==
    /\ WalkIdle
    /\ \E first \in {0, 1}, n \in 1 .. MaxLiveThreads :
         SessionStart(first .. (first + n - 1), first + n)

SpecLive == InitLive /\ [][Next]_vars /\ WF_vars(SessionStep /\ UNCHANGED wvars)

\* C17: with a debuggee that stops spawning threads (after MaxSpawn of
\* them), the re-scan loop ends: dbg_detach is reached, unless a call of the
\* loop panicked.  A page of the re-scan moves start_tid up, and no id is
\* listed twice.
C17_RescanEndsAndNeverRelists ==
    /\ (pc = "rescan_list") ~> (pc \in {"detach", "panicked"})
    /\ [][(pc = "rescan_thread" /\ pc' = "rescan_list") => start_tid' > start_tid]_vars
    /\ []NoRepeat(Ids(listed), Len(listed))

\* C17 witness: dbg_detach reached after the re-scan listed threads that the
\* debuggee spawned, all it will spawn
C17_Witness ==
    /\ pc = "detach"
    /\ spawned = MaxSpawn
    /\ rescanned # {}
    /\ rescanned \subseteq auto_paused \cup (threads \ Ids(snapshots))

(***************************************************************************)
(* C18.  get_thread_trace runs on until it returns or panics: it waits for *)
(* nothing but its own dbg_get_mem calls, which return.                    *)
(***************************************************************************)
SpecWalkFair == SpecWalk /\ WF_vars(NextWalk)

\* the reads of an iteration: first at rbp + 8, then at rbp
ReadsInOrder ==
    \A k \in 1 .. Len(reads) :
        k % 2 = 1 =>
            reads[k] = IpSlot(IF k < Len(reads) THEN reads[k + 1] ELSE rbp).val

\* C18: for every memory and every starting frame pointer, chains that
\* cycle with any period included, the walk ends; it enters at most
\* BT_DEPTH iterations, makes at most two reads in each, the first at
\* rbp + 8 and the second at rbp, and stores at most one entry in each.
C18_WalkEndsWithinDepth ==
    /\ <>WalkDone
    /\ [](/\ idx <= BT_DEPTH
          /\ wpc \in {"read_ip", "read_rbp"} => idx < BT_DEPTH
          /\ Len(reads) <= 2 * idx + 2
          /\ Len(reads) <= 2 * BT_DEPTH
          /\ ReadsInOrder
          /\ \A i \in 0 .. (BT_DEPTH - 1) : backtrace[i] # Zero64 => 2 * i < Len(reads))

\* C18 witness: the walk of a chain that cycles with period 2 returned after
\* BT_DEPTH iterations of two reads each
C18_Witness ==
    /\ wpc = "returned"
    /\ idx = BT_DEPTH
    /\ Len(reads) = 2 * BT_DEPTH
    /\ reads[2 * BT_DEPTH] = reads[2 * BT_DEPTH - 4]
    /\ reads[2 * BT_DEPTH] # reads[2 * BT_DEPTH - 2]

(***************************************************************************)
(* C19: dbg_resume_process is called once in a session, after the last     *)
(* snapshot and before the first dbg_resume_thread call, and it clears     *)
(* the process pause flag: a thread the session resumed is not paused      *)
(* again, and a thread spawned from then on is not paused.                 *)
(***************************************************************************)
\* the ids the debuggee gave to the threads it spawned during the session
SpawnedIds == {t \in threads \cup exited : t >= next_tid - spawned}

C19_ProcessResumedOnceBeforeThreads ==
    /\ [](/\ flags.resume_calls <= 1
          /\ pc = "done" => flags.resume_calls = 1
          /\ last_op.op = "get_thread_data" => flags.resume_calls = 0
          /\ pc \in {"scan_list", "scan_thread"} => flags.resume_calls = 0
          /\ resumed # <<>> => (flags.resume_calls = 1 /\ ~proc_paused)
          /\ \A i \in 1 .. Len(resumed) :
               resumed[i][2] = "Ok" => resumed[i][1] \notin paused)
    /\ [][resumed # <<>> => paused' \subseteq paused]_vars

\* C19 witness: a session ended with Ok that resumed a paused thread and
\* left a thread spawned after dbg_resume_process running
C19_Witness ==
    /\ pc = "done"
    /\ \E i \in 1 .. Len(resumed) : resumed[i][2] = "Ok"
    /\ \E t \in (SpawnedIds \cap threads) \ ResumedIds : t \notin paused

(***************************************************************************)
(* C20: whatever frame pointer the walk holds when it comes to read the    *)
(* return address, rbp + 8 does not overflow 64 bits: the walk neither     *)
(* panics on the sum nor reads at the wrapped address.                     *)
(***************************************************************************)
C20_IpSlotNeverOverflows ==
    /\ wpc = "read_ip" => ~IpSlot(rbp).overflow
    /\ \A k \in 1 .. Len(reads) :
         (k % 2 = 1 /\ k < Len(reads)) => ~Lt64(reads[k], reads[k + 1])

====
